---- MODULE Spec2Model ----
(***************************************************************************)
(* Model of the virtual memory manager of src/main.cpp: the TLB, the page  *)
(* table, the physical memory, the backing store and the translation loop  *)
(* of main, one step per line of the address file.                         *)
(***************************************************************************)
EXTENDS Integers, Sequences, FiniteSets, TLC

(***************************************************************************)
(* Program constants (src/main.cpp:12-19).                                 *)
(***************************************************************************)
PAGE_TABLE_SIZE == 256
PAGE_SIZE == 256
TLB_SIZE == 16
FRAME_SIZE == 256
FRAMES == 256
BITSHIFT == 8
MASK == 65535
OFFSET_MASK == 255

(***************************************************************************)
(* Bounds of the explored address files.  A line whose page was already    *)
(* touched is a repeat.  A file holds at most MaxRepeats repeats, all of   *)
(* them within its first RepeatWindow lines; the number of lines that      *)
(* touch a new page is not bounded.                                        *)
(***************************************************************************)
MaxRepeats == 1
RepeatWindow == 20

Pages == 0 .. (PAGE_TABLE_SIZE - 1)
FrameNumbers == 0 .. (FRAMES - 1)

(***************************************************************************)
(* Machine arithmetic.                                                     *)
(***************************************************************************)
RECURSIVE BitAnd(_, _)
BitAnd(a, b) ==
    IF a = 0 \/ b = 0 THEN 0
    ELSE (IF a % 2 = 1 /\ b % 2 = 1 THEN 1 ELSE 0) + 2 * BitAnd(a \div 2, b \div 2)

RECURSIVE BitOr(_, _)
BitOr(a, b) ==
    IF a = 0 THEN b
    ELSE IF b = 0 THEN a
    ELSE (IF a % 2 = 1 \/ b % 2 = 1 THEN 1 ELSE 0) + 2 * BitOr(a \div 2, b \div 2)

ShiftRight(a, n) == a \div (2 ^ n)
ShiftLeft(a, n) == a * (2 ^ n)

\* static_cast / implicit conversion to uint8_t and uint16_t
ToUint8(x) == x % 256
ToUint16(x) == x % 65536
\* the bit pattern of one byte read as int8_t
ToInt8(b) == IF b % 256 >= 128 THEN (b % 256) - 256 ELSE b % 256

(***************************************************************************)
(* std::optional<uint8_t>                                                  *)
(***************************************************************************)
NullOpt == [has_value |-> FALSE, value |-> 0]
Some(v) == [has_value |-> TRUE, value |-> v]

(***************************************************************************)
(* std::deque operations used by the TLB.                                  *)
(***************************************************************************)
\* position of the first entry whose page is pageNumber, 0 when there is none
FindFirst(entries, pageNumber) ==
    IF \E i \in 1 .. Len(entries) : entries[i].first = pageNumber
    THEN CHOOSE i \in 1 .. Len(entries) :
             /\ entries[i].first = pageNumber
             /\ \A j \in 1 .. (i - 1) : entries[j].first # pageNumber
    ELSE 0

Erase(entries, i) ==
    SubSeq(entries, 1, i - 1) \o SubSeq(entries, i + 1, Len(entries))

EmplaceBack(entries, pageNumber, frameNumber) ==
    Append(entries, [first |-> pageNumber, second |-> frameNumber])

PopFront(entries) == Tail(entries)

(***************************************************************************)
(* class TLB                                                               *)
(***************************************************************************)
\* getFrameNumber comparing the frame of an entry, not its page
Mutant_getFrameNumber_MatchesFrame(entries, pageNumber) ==
    IF \E i \in 1 .. Len(entries) : entries[i].second = pageNumber
    THEN LET i == CHOOSE k \in 1 .. Len(entries) : entries[k].second = pageNumber
             frameNumber == entries[i].second
         IN  [ret |-> Some(frameNumber),
              tlbEntries |-> EmplaceBack(Erase(entries, i), pageNumber, frameNumber)]
    ELSE [ret |-> NullOpt, tlbEntries |-> entries]

\* getFrameNumber without the move to the back (a plain FIFO TLB)
Mutant_getFrameNumber_NoPromotion(entries, pageNumber) ==
    LET i == FindFirst(entries, pageNumber) IN
    IF i # 0
    THEN [ret |-> Some(entries[i].second), tlbEntries |-> entries]
    ELSE [ret |-> NullOpt, tlbEntries |-> entries]

\* getFrameNumber moving the entry it finds to the front
Mutant_getFrameNumber_PromoteToFront(entries, pageNumber) ==
    LET i == FindFirst(entries, pageNumber) IN
    IF i # 0
    THEN LET frameNumber == entries[i].second IN
         [ret |-> Some(frameNumber),
          tlbEntries |-> <<[first |-> pageNumber, second |-> frameNumber]>>
                         \o Erase(entries, i)]
    ELSE [ret |-> NullOpt, tlbEntries |-> entries]

\* getFrameNumber erasing the entry it finds, without the emplace_back
Mutant_getFrameNumber_EraseOnly(entries, pageNumber) ==
    LET i == FindFirst(entries, pageNumber) IN
    IF i # 0
    THEN [ret |-> Some(entries[i].second), tlbEntries |-> Erase(entries, i)]
    ELSE [ret |-> NullOpt, tlbEntries |-> entries]

\* getFrameNumber dropping the oldest entry when it finds none
Mutant_getFrameNumber_MissPopsFront(entries, pageNumber) ==
    LET i == FindFirst(entries, pageNumber) IN
    IF i # 0
    THEN LET frameNumber == entries[i].second IN
         [ret |-> Some(frameNumber),
          tlbEntries |-> EmplaceBack(Erase(entries, i), pageNumber, frameNumber)]
    ELSE [ret |-> NullOpt,
          tlbEntries |-> IF entries = <<>> THEN entries ELSE PopFront(entries)]

\* TLB::getFrameNumber: the returned optional and the deque it leaves
TLB_getFrameNumber(entries, pageNumber) ==
    LET i == FindFirst(entries, pageNumber) IN
    IF i # 0
    THEN LET frameNumber == entries[i].second IN
         [ret |-> Some(frameNumber),
          tlbEntries |-> EmplaceBack(Erase(entries, i), pageNumber, frameNumber)]
    ELSE [ret |-> NullOpt, tlbEntries |-> entries]

\* addEntry without the removal of the entry the page already has
Mutant_addEntry_NoErase(entries, pageNumber, frameNumber) ==
    LET popped == IF Len(entries) >= TLB_SIZE THEN PopFront(entries) ELSE entries
    IN  EmplaceBack(popped, pageNumber, frameNumber)

\* addEntry with pop_back in the place of pop_front
Mutant_addEntry_PopBack(entries, pageNumber, frameNumber) ==
    LET i == FindFirst(entries, pageNumber)
        erased == IF i # 0 THEN Erase(entries, i) ELSE entries
        popped == IF Len(erased) >= TLB_SIZE
                  THEN SubSeq(erased, 1, Len(erased) - 1) ELSE erased
    IN  EmplaceBack(popped, pageNumber, frameNumber)

\* addEntry storing the pair as (frame, page)
Mutant_addEntry_Swapped(entries, pageNumber, frameNumber) ==
    LET i == FindFirst(entries, pageNumber)
        erased == IF i # 0 THEN Erase(entries, i) ELSE entries
        popped == IF Len(erased) >= TLB_SIZE THEN PopFront(erased) ELSE erased
    IN  EmplaceBack(popped, frameNumber, pageNumber)

\* TLB::addEntry: the deque it leaves
TLB_addEntry(entries, pageNumber, frameNumber) ==
    LET i == FindFirst(entries, pageNumber)
        erased == IF i # 0 THEN Erase(entries, i) ELSE entries
        popped == IF Len(erased) >= TLB_SIZE THEN PopFront(erased) ELSE erased
    IN  EmplaceBack(popped, pageNumber, frameNumber)

(***************************************************************************)
(* class PageTable                                                         *)
(***************************************************************************)
PageTable_init == [p \in Pages |-> -1]

\* getFrameNumber taking frame 0 for an invalid entry too
Mutant_PageTable_getFrameNumber_ZeroInvalid(table, pageNumber) ==
    LET frameNumber == table[pageNumber] IN
    IF frameNumber <= 0 THEN NullOpt ELSE Some(ToUint8(frameNumber))

PageTable_getFrameNumber(table, pageNumber) ==
    LET frameNumber == table[pageNumber] IN
    IF frameNumber = -1 THEN NullOpt ELSE Some(ToUint8(frameNumber))

PageTable_setFrameNumber(table, pageNumber, frameNumber) ==
    [table EXCEPT ![pageNumber] = frameNumber]

(***************************************************************************)
(* class PhysicalMemory                                                    *)
(***************************************************************************)
\* A frame, std::array<int8_t, FRAME_SIZE>, is a sequence of FRAME_SIZE
\* bytes: the byte at offset o is element o + 1.  So is a page buffer,
\* int8_t[PAGE_SIZE].
PhysicalMemory_init == [f \in FrameNumbers |-> [k \in 1 .. FRAME_SIZE |-> 0]]

\* loadPage copying into frame 0 whatever the frame number
Mutant_loadPage_FrameZero(mem, frameNumber, pageData) ==
    [mem EXCEPT ![0] = [k \in 1 .. FRAME_SIZE |-> pageData[k]]]

\* std::copy_n(pageData, FRAME_SIZE, memory[frameNumber].begin())
PhysicalMemory_loadPage(mem, frameNumber, pageData) ==
    [mem EXCEPT ![frameNumber] = [k \in 1 .. FRAME_SIZE |-> pageData[k]]]

PhysicalMemory_getValue(mem, physicalAddress) ==
    LET frameNumber == ToUint8(BitAnd(ShiftRight(physicalAddress, 8), 255))
        offset == ToUint8(BitAnd(physicalAddress, 255))
    IN  mem[frameNumber][offset + 1]

(***************************************************************************)
(* BACKING_STORE.bin as written by backing_store_filler.cpp: 256 pages of  *)
(* 256 bytes, byte i being the i-th value of rand() % 256, counting from   *)
(* 0.  The filler never calls srand, so rand() is the C library's          *)
(* generator with seed 1.  With glibc that is the additive feedback        *)
(* generator of random_r (TYPE_3): 31 words r[0 .. 30] from the seed by    *)
(* the Lehmer step, r[i] = r[i - 31] for i = 31 .. 33, then                *)
(* r[i] = r[i - 3] + r[i - 31] modulo 2^32, the words 34 .. 343 thrown     *)
(* away and the k-th result being r[k + 344] >> 1.  rand() % 256 is bits   *)
(* 1 .. 8 of the word, and the low 9 bits of a sum depend on the low 9     *)
(* bits of its terms only: from word 31 on the words are kept modulo 2^9.  *)
(***************************************************************************)
\* srandom_r: word = 16807 * word % 2147483647, computed without overflow
RandSeedStep(word) ==
    LET hi == word \div 127773
        lo == word % 127773
        next == 16807 * lo - 2836 * hi
    IN  IF next < 0 THEN next + 2147483647 ELSE next

\* the words r[0 .. n] of the seed 1
RECURSIVE RandSeedWords(_)
RandSeedWords(n) ==
    IF n = 0 THEN <<1>>
    ELSE LET words == RandSeedWords(n - 1)
         IN  Append(words, RandSeedStep(words[n]))

\* A window holds the last 31 words: window[1] is r[i - 31] and window[29]
\* is r[i - 3] when r[i] is the next word.
RandSeedWindow == [i \in 1 .. 31 |-> RandSeedWords(30)[i] % 512]

RandWindowPush(window, word) == Append(Tail(window), word)

\* r[31 .. 33] = r[0 .. 2]
RandWindow34 ==
    LET w31 == RandWindowPush(RandSeedWindow, RandSeedWindow[1])
        w32 == RandWindowPush(w31, w31[1])
    IN  RandWindowPush(w32, w32[1])

\* random_r: the next word
RandNextWord(window) == (window[1] + window[29]) % 512

\* The next n words, n > 0: the values of rand() % 256 they give, and the
\* window after them.  The words are produced in order, those of the first
\* half of the n before those of the second half.
RECURSIVE RandValues(_, _)
RandValues(window, n) ==
    IF n = 1
    THEN LET word == RandNextWord(window)
         IN  [out |-> <<(word \div 2) % 256>>,
              window |-> RandWindowPush(window, word)]
    ELSE LET first == RandValues(window, n \div 2)
             second == RandValues(first.window, n - (n \div 2))
         IN  [out |-> first.out \o second.out, window |-> second.window]

\* the window before result 0: words 34 .. 343 are thrown away
RandWindow344 == RandValues(RandWindow34, 310).window

\* what the filler writes: 256 pages of 256 values of rand() % 256
FillerFile == RandValues(RandWindow344, 256 * 256).out

\* value i of rand() % 256, counting from 0
RandMod256(i) == FillerFile[i + 1]

BackingStoreFile(position) == RandMod256(position)

\* readPage seeking to pageNumber, not to pageNumber * PAGE_SIZE
Mutant_readPage_SeekPageNumber(pageNumber) ==
    [k \in 1 .. 256 |-> ToInt8(BackingStoreFile(pageNumber + (k - 1)))]

\* BackingStore::readPage: seek to pageNumber * PAGE_SIZE, read 256 bytes
\* into the int8_t buffer
BackingStore_readPage(pageNumber) ==
    [k \in 1 .. 256 |-> ToInt8(BackingStoreFile(pageNumber * PAGE_SIZE + (k - 1)))]

VARIABLES
    tlbEntries,          \* TLB::tlbEntries
    pageTable,           \* PageTable::pageTable
    memory,              \* PhysicalMemory::memory
    nextAvailableFrame,  \* main: uint16_t
    totalAddresses,      \* main
    tlbHits,             \* main
    pageFaults,          \* main
    pc,                  \* "loop", "exit_success", "exit_failure"
    line,                \* the value of the last line read (std::stoul(line))
    path,                \* how the last line was served
    records,             \* number of result lines written to stdout
    rec,                 \* the last result line written to stdout
    summary,             \* the two rate lines written at the end of main
    err,                 \* the message written to stderr
    seen,                \* pages of the lines read so far
    repeats,             \* number of lines read whose page had been read before
    tlbCall,             \* the last call of a TLB method made on its own (SpecTLB)
    lastHit              \* the last such call of getFrameNumber that hit

vars == <<tlbEntries, pageTable, memory, nextAvailableFrame,
          totalAddresses, tlbHits, pageFaults, pc, line, path, records, rec,
          summary, err, seen, repeats, tlbCall, lastHit>>

NoRecord == [logical |-> 0, physical |-> 0, value |-> 0]
NoSummary == <<>>
NoCall == [op |-> "none", pageNumber |-> 0, frameNumber |-> 0, ret |-> NullOpt]
NoHit == [hit |-> FALSE, pageNumber |-> 0, inserted |-> 0]

Init ==
    /\ tlbEntries = <<>>
    /\ pageTable = PageTable_init
    /\ memory = PhysicalMemory_init
    /\ nextAvailableFrame = 0
    /\ totalAddresses = 0
    /\ tlbHits = 0
    /\ pageFaults = 0
    /\ pc = "loop"
    /\ line = 0
    /\ path = "none"
    /\ records = 0
    /\ rec = NoRecord
    /\ summary = NoSummary
    /\ err = ""
    /\ seen = {}
    /\ repeats = 0
    /\ tlbCall = NoCall
    /\ lastHit = NoHit

(***************************************************************************)
(* main, lines 233-238: the logical address, page number and offset of a   *)
(* line.                                                                   *)
(***************************************************************************)
\* the logical address without the mask
Mutant_LogicalAddress_NoMask(L) == L

LogicalAddress(L) == BitAnd(L, MASK)
PageNumber(L) == ToUint8(BitAnd(ShiftRight(LogicalAddress(L), BITSHIFT), OFFSET_MASK))
Offset(L) == ToUint8(BitAnd(LogicalAddress(L), OFFSET_MASK))

\* main, lines 280-287: the result line for a frame
PhysicalAddress(frameNumber, offset) ==
    ToUint16(BitOr(ShiftLeft(frameNumber, 8), offset))

ResultLine(L, frameNumberOpt, mem) ==
    LET frameNumber == frameNumberOpt.value
        physicalAddress == PhysicalAddress(frameNumber, Offset(L))
    IN  [logical |-> LogicalAddress(L),
         physical |-> physicalAddress,
         value |-> PhysicalMemory_getValue(mem, physicalAddress)]

(***************************************************************************)
(* The lines the address file may hold next.                               *)
(***************************************************************************)
StartPages == {0}

\* a page not read before: any start page first, then downwards from it
NewPages ==
    IF seen = {} THEN StartPages
    ELSE {p \in Pages \ seen : ((p + 1) % 256) \in seen}

\* pages read before: the last one, the oldest of the TLB, the first of the file
OldPages ==
    IF seen = {} \/ repeats >= MaxRepeats \/ totalAddresses >= RepeatWindow THEN {}
    ELSE {PageNumber(line), tlbEntries[1].first}
         \cup {p \in Pages : pageTable[p] = 0}

LinesOf(p) == {p * 256 + 67, 65536 + p * 256 + 255}

NextLines == UNION {LinesOf(p) : p \in NewPages \cup OldPages}

\* getline and the bookkeeping of the file read so far
ReadLine(L) ==
    /\ pc = "loop"
    /\ L \in NextLines
    /\ line' = L
    /\ totalAddresses' = totalAddresses + 1
    /\ seen' = seen \cup {PageNumber(L)}
    /\ repeats' = IF PageNumber(L) \in seen THEN repeats + 1 ELSE repeats
    /\ UNCHANGED <<tlbCall, lastHit>>

(***************************************************************************)
(* main, lines 227-288: one iteration of the loop, by the way it is served.*)
(***************************************************************************)
\* a TLB hit counted as a page fault too
Mutant_TlbHit_CountsFault(L) ==
    LET look == TLB_getFrameNumber(tlbEntries, PageNumber(L)) IN
    /\ ReadLine(L)
    /\ look.ret.has_value
    /\ tlbHits' = tlbHits + 1
    /\ pageFaults' = pageFaults + 1
    /\ tlbEntries' = look.tlbEntries
    /\ rec' = ResultLine(L, look.ret, memory)
    /\ records' = records + 1
    /\ path' = "tlb"
    /\ UNCHANGED <<pageTable, memory, nextAvailableFrame, pc, summary, err>>

TlbHit(L) ==
    LET look == TLB_getFrameNumber(tlbEntries, PageNumber(L)) IN
    /\ ReadLine(L)
    /\ look.ret.has_value
    /\ tlbHits' = tlbHits + 1
    /\ tlbEntries' = look.tlbEntries
    /\ rec' = ResultLine(L, look.ret, memory)
    /\ records' = records + 1
    /\ path' = "tlb"
    /\ UNCHANGED <<pageTable, memory, nextAvailableFrame, pageFaults,
                   pc, summary, err>>

PageTableHit(L) ==
    LET look == TLB_getFrameNumber(tlbEntries, PageNumber(L))
        frameNumberOpt == PageTable_getFrameNumber(pageTable, PageNumber(L))
    IN
    /\ ReadLine(L)
    /\ ~look.ret.has_value
    /\ frameNumberOpt.has_value
    /\ tlbEntries' = TLB_addEntry(look.tlbEntries, PageNumber(L), frameNumberOpt.value)
    /\ rec' = ResultLine(L, frameNumberOpt, memory)
    /\ records' = records + 1
    /\ path' = "table"
    /\ UNCHANGED <<pageTable, memory, nextAvailableFrame, tlbHits,
                   pageFaults, pc, summary, err>>

\* lines 251-268: what a page fault does before the test of line 269
FaultLoaded(L) ==
    LET pageData == BackingStore_readPage(PageNumber(L)) IN
    PhysicalMemory_loadPage(memory, ToUint8(nextAvailableFrame), pageData)

\* the page mapped to the frame after the one it was loaded into
Mutant_FaultMapped_AfterIncrement(L) ==
    PageTable_setFrameNumber(pageTable, PageNumber(L), ToUint8(nextAvailableFrame + 1))

FaultMapped(L) ==
    PageTable_setFrameNumber(pageTable, PageNumber(L), ToUint8(nextAvailableFrame))

\* the page cached with the frame after the one it was loaded into
Mutant_FaultCached_AfterIncrement(L) ==
    LET look == TLB_getFrameNumber(tlbEntries, PageNumber(L)) IN
    TLB_addEntry(look.tlbEntries, PageNumber(L), ToUint8(nextAvailableFrame + 1))

FaultCached(L) ==
    LET look == TLB_getFrameNumber(tlbEntries, PageNumber(L)) IN
    TLB_addEntry(look.tlbEntries, PageNumber(L), ToUint8(nextAvailableFrame))

MemoryFull(frame) == frame >= FRAME_SIZE

PageFault(L) ==
    LET look == TLB_getFrameNumber(tlbEntries, PageNumber(L))
        frameNumberOpt == PageTable_getFrameNumber(pageTable, PageNumber(L))
    IN
    /\ ReadLine(L)
    /\ ~look.ret.has_value
    /\ ~frameNumberOpt.has_value
    /\ ~MemoryFull(ToUint16(nextAvailableFrame + 1))
    /\ pageFaults' = pageFaults + 1
    /\ memory' = FaultLoaded(L)
    /\ pageTable' = FaultMapped(L)
    /\ tlbEntries' = FaultCached(L)
    /\ nextAvailableFrame' = ToUint16(nextAvailableFrame + 1)
    /\ rec' = ResultLine(L, Some(ToUint8(nextAvailableFrame)), memory')
    /\ records' = records + 1
    /\ path' = "fault"
    /\ UNCHANGED <<tlbHits, pc, summary, err>>

\* lines 269-272: the page fault after which the frame counter is FRAME_SIZE
PageFaultMemoryFull(L) ==
    LET look == TLB_getFrameNumber(tlbEntries, PageNumber(L))
        frameNumberOpt == PageTable_getFrameNumber(pageTable, PageNumber(L))
    IN
    /\ ReadLine(L)
    /\ ~look.ret.has_value
    /\ ~frameNumberOpt.has_value
    /\ MemoryFull(ToUint16(nextAvailableFrame + 1))
    /\ pageFaults' = pageFaults + 1
    /\ memory' = FaultLoaded(L)
    /\ pageTable' = FaultMapped(L)
    /\ tlbEntries' = FaultCached(L)
    /\ nextAvailableFrame' = ToUint16(nextAvailableFrame + 1)
    /\ err' = "Error: Physical memory is full."
    /\ pc' = "exit_failure"
    /\ path' = "fault"
    /\ UNCHANGED <<tlbHits, rec, records, summary>>

(***************************************************************************)
(* main, lines 290-298: the end of the file.                               *)
(***************************************************************************)
\* static_cast<double>(count) / totalAddresses * 100.0: the double whose
\* value is num / den, den being the divisor used; 0.0 / 0 is NaN
Rate(count, total) ==
    [nan |-> count = 0 /\ total = 0, num |-> count * 100, den |-> total]

EndOfFile ==
    /\ pc = "loop"
    /\ summary' = <<[label |-> "Page Fault Rate", rate |-> Rate(pageFaults, totalAddresses)],
                    [label |-> "TLB Hit Rate", rate |-> Rate(tlbHits, totalAddresses)]>>
    /\ pc' = "exit_success"
    /\ UNCHANGED <<tlbEntries, pageTable, memory, nextAvailableFrame,
                   totalAddresses, tlbHits, pageFaults, line, path, records, rec,
                   err, seen, repeats, tlbCall, lastHit>>

Next ==
    \/ \E L \in NextLines : TlbHit(L)
    \/ \E L \in NextLines : PageTableHit(L)
    \/ \E L \in NextLines : PageFault(L)
    \/ \E L \in NextLines : PageFaultMemoryFull(L)
    \/ EndOfFile

Spec == Init /\ [][Next]_vars

(***************************************************************************)
(* class TLB on its own: a TLB object, constructed empty, on which         *)
(* getFrameNumber and addEntry are called in any order.  A call that       *)
(* inserts a page never inserted before counts towards MaxTlbPages, every  *)
(* other call towards MaxTlbRepeats.                                       *)
(***************************************************************************)
MaxTlbPages == 17
MaxTlbRepeats == 2

InitTLB ==
    /\ tlbEntries = <<>>
    /\ tlbCall = NoCall
    /\ lastHit = NoHit
    /\ seen = {}
    /\ repeats = 0
    /\ pc = "tlb"
    /\ pageTable = <<>>
    /\ memory = <<>>
    /\ nextAvailableFrame = 0
    /\ totalAddresses = 0
    /\ tlbHits = 0
    /\ pageFaults = 0
    /\ line = 0
    /\ path = "none"
    /\ records = 0
    /\ rec = NoRecord
    /\ summary = NoSummary
    /\ err = ""

\* pages the TLB holds: those at the front, the middle and the back
TlbOldPages ==
    IF tlbEntries = <<>> THEN {}
    ELSE {tlbEntries[1].first,
          tlbEntries[(Len(tlbEntries) + 1) \div 2].first,
          tlbEntries[Len(tlbEntries)].first}

\* the frame a page is inserted with first, and the one it is inserted with
\* again
TlbFrameOf(p) == (256 - p) % 256
TlbOtherFrameOf(p) == (TlbFrameOf(p) + 128) % 256

TlbOnly ==
    UNCHANGED <<pageTable, memory, nextAvailableFrame, totalAddresses, tlbHits,
                pageFaults, pc, line, path, records, rec, summary, err>>

CallGetFrameNumber(p) ==
    LET look == TLB_getFrameNumber(tlbEntries, p) IN
    /\ pc = "tlb"
    /\ repeats < MaxTlbRepeats
    /\ tlbEntries' = look.tlbEntries
    /\ tlbCall' = [op |-> "getFrameNumber", pageNumber |-> p, frameNumber |-> 0,
                   ret |-> look.ret]
    /\ lastHit' = IF look.ret.has_value
                  THEN [hit |-> TRUE, pageNumber |-> p, inserted |-> Cardinality(seen)]
                  ELSE lastHit
    /\ repeats' = repeats + 1
    /\ UNCHANGED seen
    /\ TlbOnly

CallAddEntry(p, f) ==
    /\ pc = "tlb"
    /\ IF p \in seen THEN repeats < MaxTlbRepeats
                     ELSE Cardinality(seen) < MaxTlbPages
    /\ tlbEntries' = TLB_addEntry(tlbEntries, p, f)
    /\ tlbCall' = [op |-> "addEntry", pageNumber |-> p, frameNumber |-> f,
                   ret |-> NullOpt]
    /\ repeats' = IF p \in seen THEN repeats + 1 ELSE repeats
    /\ seen' = seen \cup {p}
    /\ UNCHANGED lastHit
    /\ TlbOnly

NextTLB ==
    \/ \E p \in NewPages \cup TlbOldPages : CallGetFrameNumber(p)
    \/ \E p \in NewPages : CallAddEntry(p, TlbFrameOf(p))
    \/ \E p \in TlbOldPages : CallAddEntry(p, TlbOtherFrameOf(p))

SpecTLB == InitTLB /\ [][NextTLB]_vars

(***************************************************************************)
(* Notions the properties below are stated with.  They are written with    *)
(* \div and %, not with the operators of the model.                        *)
(***************************************************************************)
\* the translation of the last line read was completed and reported
Reported == totalAddresses > 0 /\ records = totalAddresses

PageOf(L) == (L \div 256) % 256
OffsetOf(L) == L % 256

\* the byte of BACKING_STORE.bin at a position, as the int8_t the program reads
StoredByte(position) ==
    LET b == BackingStoreFile(position) IN IF b >= 128 THEN b - 256 ELSE b

TlbPages == {tlbEntries[i].first : i \in 1 .. Len(tlbEntries)}

MappedPages == {p \in Pages : pageTable[p] # -1}

(***************************************************************************)
(* C1.  Whenever the translation of a line L is completed, whichever path  *)
(* served it, the value reported is the byte of the backing store at       *)
(* position page * 256 + offset, page = ((L & 0xFFFF) >> 8) and offset =   *)
(* L & 0xFF, read as int8_t; and the first page fault of a run is given    *)
(* frame 0.                                                                *)
(***************************************************************************)
C1_ValueIsBackingStoreByte ==
    /\ Reported =>
         rec.value = StoredByte(((line % 65536) \div 256) * 256 + (line % 256))
    /\ (Reported /\ totalAddresses = 1) =>
         /\ path = "fault"
         /\ pageTable[PageOf(line)] = 0
         /\ rec.physical \div 256 = 0

\* a page loaded long before, dropped from the TLB and found in the page
\* table again, at an offset whose byte is negative
C1_Witness ==
    /\ Reported
    /\ path = "table"
    /\ rec.value < 0
    /\ pageFaults > TLB_SIZE

(***************************************************************************)
(* C2.  For every line L, wider than 16 bits or not, the physical address  *)
(* reported is (frame << 8) | (L & 0xFF), frame being the frame the page   *)
(* table maps page (L >> 8) & 0xFF to; its low 8 bits are those of L; and  *)
(* L and L + 65536 have the same page, offset and result.                  *)
(***************************************************************************)
C2_PhysicalAddressFormula ==
    Reported =>
        LET frame == pageTable[PageOf(line)] IN
        /\ frame \in FrameNumbers
        /\ rec.logical = line % 65536
        /\ rec.physical = frame * 256 + OffsetOf(line)
        /\ rec.physical % 256 = line % 256
        /\ PageNumber(line + 65536) = PageNumber(line)
        /\ Offset(line + 65536) = Offset(line)
        /\ ResultLine(line + 65536, Some(frame), memory) = rec

\* a line wider than 16 bits, served by a frame other than 0 and other
\* than its page
C2_Witness ==
    /\ Reported
    /\ line >= 65536
    /\ rec.physical \div 256 # 0
    /\ rec.physical \div 256 # PageOf(line)

(***************************************************************************)
(* C3.  For every M from 1 to 256, a file of M lines on M distinct pages   *)
(* is processed whole, and with fault count M and hit count 0: after any   *)
(* number of lines up to 256, none of them a repeat, the run has not       *)
(* stopped with an error, every line read is reported, every line was a    *)
(* fault and none a hit.                                                   *)
(***************************************************************************)
C3_DistinctPagesAllFault ==
    (repeats = 0 /\ totalAddresses \in 1 .. 256) =>
        /\ pc # "exit_failure"
        /\ records = totalAddresses
        /\ pageFaults = totalAddresses
        /\ tlbHits = 0

(***************************************************************************)
(* C4.  The run stops with the memory-full error only on a page fault that *)
(* finds the frame counter at 256 already: every page fault that occurs    *)
(* with the counter below 256, the 256th one included (which takes frame   *)
(* 255), is served and reported and the loop goes on.                      *)
(***************************************************************************)
C4_FatalOnlyWhenNoFrameLeft ==
    [][(pc = "loop" /\ pageFaults' = pageFaults + 1 /\ nextAvailableFrame < FRAMES)
          => (pc' = "loop" /\ records' = records + 1)]_vars

(***************************************************************************)
(* C5.  Whenever the run stops with the memory-full error, the result line *)
(* of the line whose page fault caused it has been written: every line     *)
(* read has its result line.                                               *)
(***************************************************************************)
C5_FatalAfterReporting ==
    pc = "exit_failure" => records = totalAddresses

(***************************************************************************)
(* C6.  When two consecutive lines have the same page, the second is a TLB *)
(* hit: the hit counter goes up by one, there is no fault and the page     *)
(* table is not consulted, and the frame is the one of the first; when the *)
(* two lines are equal, the value is the same too.                         *)
(***************************************************************************)
C6_SamePageTwiceHits ==
    [][(/\ pc = "loop"
        /\ Reported
        /\ totalAddresses' = totalAddresses + 1
        /\ PageOf(line') = PageOf(line))
          => /\ path' = "tlb"
             /\ tlbHits' = tlbHits + 1
             /\ pageFaults' = pageFaults
             /\ pageTable' = pageTable
             /\ records' = records + 1
             /\ rec'.physical \div 256 = rec.physical \div 256
             /\ (line' = line => rec' = rec)]_vars

\* the second line of a file repeats the first one
C6_Witness ==
    /\ totalAddresses = 2
    /\ Reported
    /\ tlbHits = 1
    /\ pageFaults = 1
    /\ rec.value # 0

(***************************************************************************)
(* C7.  After any sequence of TLB lookups and inserts, the TLB holds at    *)
(* most 16 entries and no two of them have the same page.                  *)
(***************************************************************************)
C7_TlbBoundedAndUnique ==
    /\ Len(tlbEntries) <= 16
    /\ \A i, j \in 1 .. Len(tlbEntries) :
           i # j => tlbEntries[i].first # tlbEntries[j].first

\* a full TLB into which a page it already held was inserted again, after
\* more than 16 pages were inserted
C7_Witness ==
    /\ Len(tlbEntries) = 16
    /\ Cardinality(seen) > 16
    /\ tlbCall.op = "addEntry"
    /\ repeats > 0
    /\ tlbEntries[16].first = tlbCall.pageNumber
    /\ tlbEntries[16].second = TlbOtherFrameOf(tlbCall.pageNumber)

(***************************************************************************)
(* C8.  Inserting a page that is not in the TLB while it holds 16 entries  *)
(* removes exactly the front entry, keeps the other 15 in their order and  *)
(* appends the new entry at the back; inserting while it holds fewer than  *)
(* 16 entries, or inserting a page already present, evicts no other page.  *)
(* Hence after more than 16 distinct pages were inserted with no lookups,  *)
(* the page inserted first is the first one evicted.                       *)
(***************************************************************************)
C8_InsertEvictsFront ==
    [][tlbCall'.op = "addEntry" =>
        LET p == tlbCall'.pageNumber
            e == [first |-> p, second |-> tlbCall'.frameNumber]
            n == Len(tlbEntries)
            present == p \in TlbPages
            pagesAfter == {tlbEntries'[i].first : i \in 1 .. Len(tlbEntries')}
        IN
        /\ (~present /\ n = 16) =>
              /\ Len(tlbEntries') = 16
              /\ \A i \in 1 .. 15 : tlbEntries'[i] = tlbEntries[i + 1]
              /\ tlbEntries'[16] = e
        /\ (~present /\ n < 16) =>
              /\ Len(tlbEntries') = n + 1
              /\ \A i \in 1 .. n : tlbEntries'[i] = tlbEntries[i]
              /\ tlbEntries'[n + 1] = e
        /\ present =>
              /\ pagesAfter = TlbPages
              /\ tlbEntries'[Len(tlbEntries')] = e
        /\ (repeats' = 0 /\ Cardinality(seen') = 17) =>
              pagesAfter = seen' \ StartPages]_vars

\* the 17th distinct page was inserted, with no lookup before
C8_Witness ==
    /\ tlbCall.op = "addEntry"
    /\ repeats = 0
    /\ Cardinality(seen) = 17
    /\ Len(tlbEntries) = 16
    /\ TlbPages = seen \ StartPages

\* A is the page inserted first, B the one inserted second
PageA == CHOOSE p \in StartPages : TRUE
PageB == (PageA + 255) % 256

\* A, B, C inserted, then a hit on A, then only inserts of new pages, the
\* last of which is the 17th page
AfterFirstEvictionOfScenario ==
    /\ lastHit = [hit |-> TRUE, pageNumber |-> PageA, inserted |-> 3]
    /\ repeats = 1
    /\ Cardinality(seen) = 17

(***************************************************************************)
(* C9.  A lookup that hits page A moves the entry of A to the back, keeps  *)
(* its frame, and keeps the set of entries and the order of all others.    *)
(* So after A, B, C were inserted, a lookup hit A, and new pages were      *)
(* inserted until the first eviction, the page evicted is B and A is still *)
(* in the TLB.                                                             *)
(***************************************************************************)
C9_HitMovesToBack ==
    [][/\ (tlbCall'.op = "getFrameNumber" /\ tlbCall'.pageNumber \in TlbPages) =>
            LET p == tlbCall'.pageNumber
                n == Len(tlbEntries)
                i == CHOOSE k \in 1 .. n : tlbEntries[k].first = p
            IN
            /\ tlbCall'.ret = [has_value |-> TRUE, value |-> tlbEntries[i].second]
            /\ Len(tlbEntries') = n
            /\ tlbEntries'[n] = tlbEntries[i]
            /\ \A j \in 1 .. (i - 1) : tlbEntries'[j] = tlbEntries[j]
            /\ \A j \in (i + 1) .. n : tlbEntries'[j - 1] = tlbEntries[j]
       /\ (tlbCall'.op = "addEntry" /\ AfterFirstEvictionOfScenario') =>
            /\ Len(tlbEntries) = 16
            /\ PageB \in TlbPages
            /\ PageA \in TlbPages'
            /\ TlbPages' = seen' \ {PageB}]_vars

C9_Witness ==
    /\ AfterFirstEvictionOfScenario
    /\ tlbCall.op = "addEntry"
    /\ PageA \in TlbPages
    /\ PageB \notin TlbPages

(***************************************************************************)
(* C10.  All 256 entries of the page table are unmapped at the start; an   *)
(* entry changes only from unmapped to mapped, a mapped page keeps its     *)
(* frame for the rest of the run, and setFrameNumber is called at most     *)
(* once per page: each page fault, the only caller, is on a page that is   *)
(* unmapped and leaves every other entry alone.                            *)
(***************************************************************************)
C10_PageTableOnlyGrows ==
    /\ \A p \in Pages : pageTable[p] = -1
    /\ [][/\ \A p \in Pages : pageTable[p] # -1 => pageTable'[p] = pageTable[p]
          /\ pageFaults' # pageFaults =>
                /\ pageTable[PageOf(line')] = -1
                /\ pageTable'[PageOf(line')] # -1
                /\ \A p \in Pages \ {PageOf(line')} : pageTable'[p] = pageTable[p]
          /\ pageFaults' = pageFaults => pageTable' = pageTable]_vars

\* a mapped page that left the TLB is read again
C10_Witness ==
    /\ path = "table"
    /\ Cardinality(MappedPages) > TLB_SIZE
    /\ pageTable[PageOf(line)] = 0

\* the frames the page table maps pages to
MappedFrames == {pageTable[p] : p \in MappedPages}

\* the 256 bytes of a page in BACKING_STORE.bin, as int8_t
StoredPage(p) == [k \in 1 .. 256 |-> StoredByte(p * 256 + (k - 1))]

(***************************************************************************)
(* C11.  No two distinct mapped pages share a frame (there are as many     *)
(* mapped frames as mapped pages), and each frame is loaded at most once:  *)
(* a page fault loads a frame no page is mapped to,                        *)
(* with the bytes of its page, and leaves every other frame alone; no      *)
(* other step changes the memory.  So a frame loaded with a page is never  *)
(* overwritten with the bytes of another page.                             *)
(***************************************************************************)
C11_FramesNeverReassigned ==
    [][/\ Cardinality(MappedFrames') = Cardinality(MappedPages')
       /\ pageFaults' # pageFaults =>
              LET p == PageOf(line')
                  f == pageTable'[p]
              IN  /\ f \notin MappedFrames
                  /\ memory'[f] = StoredPage(p)
                  /\ \A g \in FrameNumbers \ {f} : memory'[g] = memory[g]
       /\ pageFaults' = pageFaults => memory' = memory]_vars

\* frames 0 to 16 are loaded, and the page of frame 0 is read again from
\* the page table: its frame still holds its bytes
C11_Witness ==
    /\ Cardinality(MappedFrames) = 17
    /\ path = "table"
    /\ memory[0] = StoredPage(PageOf(line))
    /\ memory[16] # memory[0]

(***************************************************************************)
(* C12.  When the address file is empty, the summary does not divide by    *)
(* the total: no rate of the summary is the result of a division by zero.  *)
(***************************************************************************)
C12_NoDivisionByZero ==
    (pc = "exit_success" /\ totalAddresses = 0) =>
        \A i \in 1 .. Len(summary) :
            summary[i].rate.den # 0 /\ ~summary[i].rate.nan

\* the summary has a line for an item
SummaryReports(item) == \E i \in 1 .. Len(summary) : summary[i].label = item

(***************************************************************************)
(* C13.  When the whole file has been read without a fatal error, a        *)
(* summary follows the last result line and reports five items: the total  *)
(* number of addresses, the TLB hit count, the TLB hit rate, the           *)
(* page-fault count and the page-fault rate.  An item is reported when a   *)
(* line of the summary carries its label.                                  *)
(***************************************************************************)
C13_SummaryHasCountsAndRates ==
    pc = "exit_success" =>
        /\ records = totalAddresses
        /\ \A item \in {"Total Addresses", "TLB Hits", "TLB Hit Rate",
                        "Page Faults", "Page Fault Rate"} :
               SummaryReports(item)

\* the pages of a TLB, front to back
PagesOf(entries) == [i \in 1 .. Len(entries) |-> entries[i].first]

\* the last n elements of a sequence, all of them when it has fewer
LastOf(s, n) == IF Len(s) <= n THEN s ELSE SubSeq(s, Len(s) - n + 1, Len(s))

\* The list of the 16 most recently used distinct pages, oldest first, after
\* one more use of page p.
LruUse(pages, p) == LastOf(Append(SelectSeq(pages, LAMBDA q : q # p), p), 16)

(***************************************************************************)
(* C14.  The TLB is an exact LRU cache of capacity 16 over the translated  *)
(* pages.  It is empty before the first translation; each translation of a *)
(* page p, whichever path serves it, takes the pages of the TLB, front to  *)
(* back, from a list r to the list of the 16 most recently used distinct   *)
(* pages after r and one more use of p; hence the TLB holds min(16, d)     *)
(* pages, d the number of distinct pages translated so far, and the page   *)
(* just translated is its back entry.                                      *)
(***************************************************************************)
C14_TlbIsLru ==
    /\ (totalAddresses = 0 => tlbEntries = <<>>)
    /\ [][totalAddresses' # totalAddresses =>
              /\ PagesOf(tlbEntries') = LruUse(PagesOf(tlbEntries), PageOf(line'))
              /\ Len(tlbEntries') = IF Cardinality(seen') < 16
                                    THEN Cardinality(seen') ELSE 16
              /\ tlbEntries'[Len(tlbEntries')].first = PageOf(line')]_vars

\* 17 pages translated, then the oldest page of the TLB translated again:
\* the TLB holds the last 16 pages, the page translated again at the back
C14_Witness ==
    /\ Cardinality(seen) = 17
    /\ totalAddresses = 18
    /\ path = "tlb"
    /\ Len(tlbEntries) = 16
    /\ PagesOf(tlbEntries) =
           [i \in 1 .. 16 |-> IF i = 16 THEN 255 ELSE (255 - i) % 256]

(***************************************************************************)
(* C15.  The translation of a line whose page is mapped in the page table  *)
(* but has no entry in the TLB changes neither the hit counter nor the     *)
(* fault counter, loads nothing (physical memory unchanged), allocates no  *)
(* frame (cursor and page table unchanged), and puts the pair (page, frame *)
(* of the page table) into the TLB, as its newest entry.                   *)
(***************************************************************************)
C15_TableHitOnlyFillsTlb ==
    [][(/\ totalAddresses' # totalAddresses
        /\ PageOf(line') \in MappedPages
        /\ PageOf(line') \notin TlbPages) =>
           /\ tlbHits' = tlbHits
           /\ pageFaults' = pageFaults
           /\ nextAvailableFrame' = nextAvailableFrame
           /\ pageTable' = pageTable
           /\ memory' = memory
           /\ tlbEntries' # <<>>
           /\ tlbEntries'[Len(tlbEntries')] =
                  [first |-> PageOf(line'), second |-> pageTable[PageOf(line')]]
           /\ records' = records + 1]_vars

\* page 0, evicted from the TLB by the 17th page, read again: it is back in
\* the TLB with its frame, nothing counted and nothing allocated
C15_Witness ==
    /\ path = "table"
    /\ PageOf(line) = 0
    /\ tlbHits = 0
    /\ pageFaults = 17
    /\ nextAvailableFrame = 17
    /\ totalAddresses = 18
    /\ tlbEntries[16] = [first |-> 0, second |-> 0]
    /\ tlbEntries[1].first = 254

\* the (page, frame) pairs of the TLB
TlbPairs == {tlbEntries[i] : i \in 1 .. Len(tlbEntries)}

(***************************************************************************)
(* C16.  The translation of a line whose page has an entry in the TLB (a   *)
(* TLB hit) adds exactly one to the hit counter and leaves the fault       *)
(* counter, the page table, physical memory and the allocator cursor       *)
(* unchanged; the TLB keeps the same set of (page, frame) pairs and the    *)
(* same number of entries, only their order may change.                    *)
(***************************************************************************)
C16_TlbHitOnlyReorders ==
    [][(/\ totalAddresses' # totalAddresses
        /\ PageOf(line') \in TlbPages) =>
           /\ tlbHits' = tlbHits + 1
           /\ pageFaults' = pageFaults
           /\ pageTable' = pageTable
           /\ memory' = memory
           /\ nextAvailableFrame' = nextAvailableFrame
           /\ TlbPairs' = TlbPairs
           /\ Len(tlbEntries') = Len(tlbEntries)]_vars

\* a hit on the front entry of a TLB of three entries: the order changed,
\* one hit counted, three pages mapped in three frames
C16_Witness ==
    /\ path = "tlb"
    /\ tlbHits = 1
    /\ pageFaults = 3
    /\ nextAvailableFrame = 3
    /\ PagesOf(tlbEntries) = <<255, 254, 0>>
    /\ tlbEntries[3].second = 0

(***************************************************************************)
(* C17.  A call of getFrameNumber for a page that has no entry in the TLB  *)
(* returns the empty optional and leaves the TLB as it was: the same       *)
(* entries in the same order.                                              *)
(***************************************************************************)
C17_MissLeavesTlbUnchanged ==
    [][(/\ tlbCall'.op = "getFrameNumber"
        /\ tlbCall'.pageNumber \notin TlbPages) =>
           /\ tlbCall'.ret = NullOpt
           /\ tlbEntries' = tlbEntries]_vars

\* a lookup that missed in a full TLB
C17_Witness ==
    /\ tlbCall.op = "getFrameNumber"
    /\ ~tlbCall.ret.has_value
    /\ tlbCall.pageNumber \notin TlbPages
    /\ Len(tlbEntries) = 16
    /\ tlbEntries[1].first = 0

(***************************************************************************)
(* C18.  In every reachable state every entry (page, frame) of the TLB     *)
(* agrees with the page table: the page is mapped there, and to that       *)
(* frame.  So a TLB hit returns the frame a lookup in the page table would *)
(* return.                                                                 *)
(***************************************************************************)
C18_TlbAgreesWithPageTable ==
    \A i \in 1 .. Len(tlbEntries) :
        /\ tlbEntries[i].first \in MappedPages
        /\ pageTable[tlbEntries[i].first] = tlbEntries[i].second

\* a full TLB after an eviction, the evicted page mapped but not cached, and
\* a hit just served from an entry that is not in frame order
C18_Witness ==
    /\ Len(tlbEntries) = 16
    /\ Cardinality(MappedPages) = 17
    /\ 0 \in MappedPages \ TlbPages
    /\ path = "tlb"
    /\ tlbEntries[16].second < tlbEntries[15].second

ZeroFrame == [k \in 1 .. 256 |-> 0]

\* what C19 says of one state
CursorAccounts ==
    /\ nextAvailableFrame = pageFaults
    /\ nextAvailableFrame = Cardinality(MappedPages)
    /\ MappedFrames = 0 .. (nextAvailableFrame - 1)
    /\ \A f \in nextAvailableFrame .. 255 : memory[f] = ZeroFrame

(***************************************************************************)
(* C19.  The allocator cursor starts at 0, never decreases, and advances   *)
(* by exactly one in a page fault and not otherwise.  Between translations *)
(* it equals the fault counter and the number of mapped pages, the frames  *)
(* of the page table are exactly 0 .. cursor - 1, the k-th page fault      *)
(* receiving frame k - 1, and every frame at or above the cursor holds     *)
(* only zero bytes.                                                        *)
(***************************************************************************)
C19_CursorCountsFrames ==
    /\ (totalAddresses = 0 => nextAvailableFrame = 0 /\ CursorAccounts)
    /\ [][/\ CursorAccounts'
          /\ nextAvailableFrame' =
                 IF pageFaults' # pageFaults THEN nextAvailableFrame + 1
                                             ELSE nextAvailableFrame
          /\ pageFaults' # pageFaults =>
                 /\ pageFaults' = pageFaults + 1
                 /\ pageTable'[PageOf(line')] = pageFaults' - 1]_vars

\* 17 faults and a page-table hit: the cursor is 17, frame 16 is loaded and
\* frame 17 is still zero
C19_Witness ==
    /\ nextAvailableFrame = 17
    /\ pageFaults = 17
    /\ totalAddresses = 18
    /\ path = "table"
    /\ memory[16] # ZeroFrame
    /\ memory[17] = ZeroFrame

(***************************************************************************)
(* C20.  For any address file, pages repeating or not, after each line     *)
(* read: the total counter is the number of lines read so far; the line    *)
(* added one to the total and one to at most one of the hit counter and    *)
(* the fault counter, so hits + faults <= total; and the fault counter is  *)
(* the number of distinct pages among the lines read so far, a page        *)
(* faulting at most once in a run.                                         *)
(***************************************************************************)
C20_CountersAccountForLines ==
    /\ (totalAddresses = 0 => tlbHits = 0 /\ pageFaults = 0 /\ seen = {})
    /\ [][totalAddresses' # totalAddresses =>
              /\ totalAddresses' = totalAddresses + 1
              /\ totalAddresses' = Cardinality(seen') + repeats'
              /\ \/ tlbHits' = tlbHits /\ pageFaults' = pageFaults
                 \/ tlbHits' = tlbHits + 1 /\ pageFaults' = pageFaults
                 \/ tlbHits' = tlbHits /\ pageFaults' = pageFaults + 1
              /\ tlbHits' + pageFaults' <= totalAddresses'
              /\ pageFaults' = Cardinality(seen')
              /\ pageFaults' # pageFaults <=> PageOf(line') \notin seen]_vars

\* a line counted by neither counter, after lines counted by either
C20_Witness ==
    /\ path = "table"
    /\ tlbHits + pageFaults < totalAddresses
    /\ pageFaults = 17
    /\ Cardinality(seen) = 17
    /\ repeats = 1

====
